---- MODULE Spec2Model ----
(***************************************************************************)
(* The assessment engine of the rooftop rainwater-harvesting planner       *)
(* (services/apiService.ts, constants.ts, hydrogeologicalData.ts).         *)
(*                                                                         *)
(* Numbers.  The engine computes in floating point; here every quantity    *)
(* is an exact integer in a fixed unit, and the inputs are taken from      *)
(* grids on which every product and quotient of the code is exact:         *)
(*   latitude            whole degrees                                     *)
(*   roof area, space    whole m2                                          *)
(*   rainfall            whole mm (annual rainfall a multiple of 50 mm)    *)
(*   groundwater depth   whole m; structure depths in 1/10 m               *)
(*   volumes             1/VolUnit m3                                      *)
(*   trench length       1/(3*VolUnit) m  (3 m3 of recharge per metre)     *)
(*   pit area            1/100 m2                                          *)
(*   coefficients        1/100;  recharge factor 1/20                      *)
(*   rounded results     toFixed(1) values in 1/10, Math.round in units    *)
(* NaN, undefined and null are three integers that no computation of the   *)
(* model produces; comparisons with NaN are false, as in JavaScript.       *)
(***************************************************************************)
EXTENDS Integers, Sequences, FiniteSets, TLC

VARIABLES
    pc,        \* the promise of the postAssess invocation: idle, pending, resolved, rejected
    input,     \* the AssessmentInput of the invocation
    locals,    \* the unrounded locals of the timer callback
    result,    \* the AssessmentResult the promise resolved with
    other,     \* a second invocation of postAssess, made by another caller
    fn,        \* which pure function the harness last applied
    args,      \* its arguments
    ret,       \* what it returned
    prevArgs,  \* the arguments of the application before
    prevRet,   \* and what that returned
    appState,  \* App: which screen is shown
    results,   \* App: the AssessmentResult on show, or null
    step,      \* AssessmentWizard: the step of the form
    isLoading, \* AssessmentWizard: a submission is under way
    error,     \* AssessmentWizard: the error message, or null
    formData   \* AssessmentWizard: the values of the form's fields

vars == <<pc, input, locals, result, other, fn, args, ret, prevArgs, prevRet,
          appState, results, step, isLoading, error, formData>>

engineVars == <<pc, input, locals, result, other>>
harnessVars == <<fn, args, ret, prevArgs, prevRet>>
uiVars == <<appState, results, step, isLoading, error, formData>>

None == "none"
\* an engine variable before the invocation has set it: a record with no field of the code
Unset == [unset |-> TRUE]
NaN == -(10^9)
undefined == NaN - 1
null == NaN - 2

VolUnit == 10^5

Min(a, b) == IF a <= b THEN a ELSE b
Max(a, b) == IF a >= b THEN a ELSE b

\* Math.round(n / d) for d > 0: the nearest integer, halves upwards.
RoundDiv(n, d) == (2 * n + d) \div (2 * d)

\* Math.ceil(n / d) for d > 0.
CeilDiv(n, d) == -((-n) \div d)

\* parseFloat(x.toFixed(1)) of a volume x, in 1/10 m3.
VolToFixed1(v) == RoundDiv(v, VolUnit \div 10)

\* JavaScript's relational operators with a NaN operand are false.
Gt(a, b) == a # NaN /\ b # NaN /\ a > b
Le(a, b) == a # NaN /\ b # NaN /\ a <= b

(***************************************************************************)
(* constants.ts                                                            *)
(***************************************************************************)
RoofTypes == {"metal", "tile", "asphalt", "thatch", "rcc"}

\* constants.ts lines 12-21: the form starts at the centre of India, 20.5937 N 78.9629 E
\* (21 N 79 E on the whole degrees of the model), with the number fields empty.
DEFAULT_INPUT_VALUES ==
    [lat |-> 21, lon |-> 79, roofAreaM2 |-> "", roofType |-> "rcc",
     openSpaceM2 |-> "", dwellers |-> "", consentToStore |-> FALSE]

\* Select.tsx line 41
TOTAL_STEPS == 2

ROOF_COEFFICIENTS ==
    [t \in RoofTypes |->
        CASE t = "metal" -> 95
          [] t = "tile" -> 90
          [] t = "rcc" -> 90
          [] t = "asphalt" -> 85
          [] t = "thatch" -> 60]

\* ROOF_COEFFICIENTS[roofType]: a missing key reads as undefined.
RoofCoefficient(roofType) ==
    IF roofType \in DOMAIN ROOF_COEFFICIENTS THEN ROOF_COEFFICIENTS[roofType] ELSE undefined

ZONES == <<
    [name |-> "Northern Alluvial Plains (Indo-Gangetic)",
     latRange |-> <<25, 32>>, depthToGroundwaterRangeM |-> <<8, 25>>],
    [name |-> "Central Highlands (Bundelkhand, etc.)",
     latRange |-> <<22, 25>>, depthToGroundwaterRangeM |-> <<10, 35>>],
    [name |-> "Peninsular Hard Rock Zone (Deccan Plateau)",
     latRange |-> <<12, 22>>, depthToGroundwaterRangeM |-> <<5, 45>>],
    [name |-> "Coastal Sedimentary Zone",
     latRange |-> <<8, 16>>, depthToGroundwaterRangeM |-> <<2, 10>>],
    [name |-> "Western Arid Zone (Rajasthan/Gujarat)",
     latRange |-> <<24, 30>>, depthToGroundwaterRangeM |-> <<20, 100>>] >>

FALLBACK_ZONE ==
    [name |-> "Mixed Geological Area",
     latRange |-> <<0, 50>>, depthToGroundwaterRangeM |-> <<5, 20>>]

\* getHydrogeologicalZone taking the last zone of the table that contains lat.
getHydrogeologicalZone_lastMatch(lat) ==
    LET hits == {i \in 1..Len(ZONES) :
                    lat >= ZONES[i].latRange[1] /\ lat < ZONES[i].latRange[2]}
    IN  IF hits = {} THEN FALLBACK_ZONE
        ELSE ZONES[CHOOSE i \in hits : \A j \in hits : i >= j]

\* ZONES.find(z => lat >= z.latRange[0] && lat < z.latRange[1]) || FALLBACK_ZONE
getHydrogeologicalZone(lat) ==
    LET hits == {i \in 1..Len(ZONES) :
                    lat >= ZONES[i].latRange[1] /\ lat < ZONES[i].latRange[2]}
    IN  IF hits = {} THEN FALLBACK_ZONE
        ELSE ZONES[CHOOSE i \in hits : \A j \in hits : i <= j]

(***************************************************************************)
(* apiService.ts                                                           *)
(***************************************************************************)
SYSTEM_EFFICIENCY == 90

\* calculateHarvestableVolume without the system efficiency.
calculateHarvestableVolume_noEfficiency(rainfallMm, areaM2, coeff) ==
    IF coeff = undefined THEN NaN
    ELSE rainfallMm * areaM2 * coeff

\* (rainfallMm / 1000) * areaM2 * coeff * SYSTEM_EFFICIENCY, in 1/VolUnit m3:
\* rainfall/1000 * area * coeff/100 * 90/100 * 10^5 = rainfall * area * coeff * 90 / 100.
calculateHarvestableVolume(rainfallMm, areaM2, coeff) ==
    IF coeff = undefined THEN NaN
    ELSE (rainfallMm * areaM2 * coeff * (SYSTEM_EFFICIENCY \div 10)) \div 10

\* Line 22: there is no practical space for a structure.
noPracticalSpace(openSpaceM2) == openSpaceM2 < 2

\* targetRechargeFactor rising from the second dweller on instead of the third.
targetRechargeFactor_fromOne(dwellers) == Min(18, 14 + Max(0, dwellers - 1) * 1)

\* Math.min(0.9, 0.7 + Math.max(0, dwellers - 2) * 0.05), in 1/20.
targetRechargeFactor(dwellers) == Min(18, 14 + Max(0, dwellers - 2) * 1)

\* harvestVolumeM3 * targetRechargeFactor
targetRechargeVolumeM3(harvestVolumeM3, dwellers) ==
    IF harvestVolumeM3 = NaN THEN NaN
    ELSE (harvestVolumeM3 * targetRechargeFactor(dwellers)) \div 20

\* Line 30: negligible volume, no structures needed.
negligibleVolume(targetVolumeM3) == Le(targetVolumeM3, 2 * VolUnit)

percolationFactor == 5
\* filterMediaPorosity 0.4, in 1/10
filterMediaPorosity == 4

standardPit == [maxWidth |-> 40, minWidth |-> 15, depth |-> 3,
                baseCost |-> 2500, costPerCubicMeter |-> 250]
standardTrench == [width |-> 1, depth |-> 15,
                   baseCost |-> 2000, costPerMeterLength |-> 500]
standardShaft == [diameter |-> 1, minDepth |-> 8, maxDepth |-> 25,
                  baseCost |-> 8000, costPerMeterDepth |-> 1000]

\* Math.PI to four decimals, in 1/10^4.
PI == 31416

\* isDeepWaterTable that takes a depth of exactly 12 m for deep.
isDeepWaterTable_atLeast12(depthToGroundwaterM) ==
    /\ depthToGroundwaterM # null
    /\ depthToGroundwaterM # 0
    /\ depthToGroundwaterM >= 12

\* depthToGroundwaterM && depthToGroundwaterM > 12 (null and 0 are falsy)
isDeepWaterTable(depthToGroundwaterM) ==
    /\ depthToGroundwaterM # null
    /\ depthToGroundwaterM # 0
    /\ depthToGroundwaterM > 12

\* Line 63, in 1/10 m: clamp((depthToGroundwaterM || 15) * 0.7, minDepth, maxDepth).
shaftDepth(depthToGroundwaterM) ==
    LET d == IF depthToGroundwaterM = null \/ depthToGroundwaterM = 0
             THEN 15 ELSE depthToGroundwaterM
    IN  Max(standardShaft.minDepth * 10, Min(standardShaft.maxDepth * 10, d * 7))

\* Lines 64-66, in 1/VolUnit m3: PI * (diameter/2)^2 * shaftDepth * porosity * percolation
\*   = PI/10^4 * 1/4 * depth/10 * 4/10 * 5 * VolUnit = PI * depth * 4 * 5 / 40.
shaftRechargeCapacity(depthToGroundwaterM) ==
    (PI * standardShaft.diameter * standardShaft.diameter
        * shaftDepth(depthToGroundwaterM) * filterMediaPorosity * percolationFactor) \div 40

\* Line 62: the guard of the shaft rule.
shaftEligible(remaining, openSpaceM2, depthToGroundwaterM) ==
    /\ isDeepWaterTable(depthToGroundwaterM)
    /\ openSpaceM2 >= 2
    /\ Gt(remaining, 20 * VolUnit)

\* Lines 69-75: the entry pushed for the shaft.
shaftEntry(depthToGroundwaterM) ==
    [type |-> "shaft",
     dimensions |-> [depthM |-> shaftDepth(depthToGroundwaterM),
                     \* (Math.PI * 0.25).toFixed(1), in 1/10 m2
                     areaM2 |-> RoundDiv(PI * standardShaft.diameter * standardShaft.diameter, 4000)],
     volumeM3 |-> VolToFixed1(shaftRechargeCapacity(depthToGroundwaterM)),
     costInr |-> standardShaft.baseCost
                 + (standardShaft.costPerMeterDepth \div 10) * shaftDepth(depthToGroundwaterM),
     count |-> 1]

\* Line 76: the volume left after the shaft rule.
afterShaft(target, openSpaceM2, depthToGroundwaterM) ==
    IF shaftEligible(target, openSpaceM2, depthToGroundwaterM)
    THEN target - shaftRechargeCapacity(depthToGroundwaterM)
    ELSE target

\* rechargeCapacityPerMeter ten times as large.
rechargeCapacityPerMeter_tenfold ==
    (standardTrench.width * standardTrench.depth * filterMediaPorosity * percolationFactor) \div 10

\* Lines 81-83, in m3 per metre: width * depth * porosity * percolation = 1 * 1.5 * 0.4 * 5.
rechargeCapacityPerMeter ==
    (standardTrench.width * standardTrench.depth * filterMediaPorosity * percolationFactor) \div 100

\* trenchEligible with the space threshold mistyped as 100.
trenchEligible_space100(remaining, openSpaceM2) ==
    /\ Gt(remaining, 40 * VolUnit)
    /\ openSpaceM2 >= 100

\* Line 80: the guard of the trench rule.
trenchEligible(remaining, openSpaceM2) ==
    /\ Gt(remaining, 40 * VolUnit)
    /\ openSpaceM2 >= 10

\* finalLength without the absolute maximum of 40 m.
finalLength_noMaximum(remaining, openSpaceM2) ==
    LET requiredLength == (remaining * 3) \div rechargeCapacityPerMeter
        maxLengthForSpace == (openSpaceM2 \div standardTrench.width) * 3 * VolUnit
    IN  Min(requiredLength, maxLengthForSpace)

\* Lines 86-88, in 1/(3*VolUnit) m: Math.min(requiredLength, maxLengthForSpace, 40),
\* requiredLength = remaining / rechargeCapacityPerMeter.
finalLength(remaining, openSpaceM2) ==
    LET requiredLength == (remaining * 3) \div rechargeCapacityPerMeter
        maxLengthForSpace == (openSpaceM2 \div standardTrench.width) * 3 * VolUnit
    IN  Min(requiredLength, Min(maxLengthForSpace, 40 * 3 * VolUnit))

\* Lines 85 and 90: the trench is pushed.
trenchBuilt(remaining, openSpaceM2) ==
    /\ trenchEligible(remaining, openSpaceM2)
    /\ rechargeCapacityPerMeter > 0
    /\ finalLength(remaining, openSpaceM2) > 2 * 3 * VolUnit

\* Line 92, in 1/VolUnit m3: finalLength * rechargeCapacityPerMeter.
totalRechargeCapacity(remaining, openSpaceM2) ==
    (finalLength(remaining, openSpaceM2) * rechargeCapacityPerMeter) \div 3

\* Lines 91-103: the entry pushed for the trench; cost = baseCost + 500 * finalLength.
trenchEntry(remaining, openSpaceM2) ==
    [type |-> "trench",
     dimensions |-> [lengthM |-> RoundDiv(finalLength(remaining, openSpaceM2), (3 * VolUnit) \div 10),
                     widthM |-> standardTrench.width * 10,
                     depthM |-> standardTrench.depth],
     volumeM3 |-> VolToFixed1(totalRechargeCapacity(remaining, openSpaceM2)),
     costInr |-> standardTrench.baseCost
                 + RoundDiv(finalLength(remaining, openSpaceM2),
                            (3 * VolUnit) \div standardTrench.costPerMeterLength),
     count |-> 1]

\* afterTrench that leaves the remaining volume as it was.
afterTrench_notReduced(remaining, openSpaceM2) == remaining

\* Line 104: the volume left after the trench rule.
afterTrench(remaining, openSpaceM2) ==
    IF trenchBuilt(remaining, openSpaceM2)
    THEN remaining - totalRechargeCapacity(remaining, openSpaceM2)
    ELSE remaining

\* pitEligible without the test of the open space.
pitEligible_anySpace(remaining, openSpaceM2) ==
    Gt(remaining, 5 * VolUnit)

\* Line 110: the guard of the pit rule.
pitEligible(remaining, openSpaceM2) ==
    /\ Gt(remaining, 5 * VolUnit)
    /\ openSpaceM2 >= 4

\* pitArea without the maximum of maxWidth^2.
pitArea_noMaximum(openSpaceM2) ==
    Max(standardPit.minWidth * standardPit.minWidth, openSpaceM2 * 60)

\* Lines 111-112, in 1/100 m2: Math.max(minWidth^2, Math.min(maxWidth^2, openSpaceM2 * 0.6)).
pitArea(openSpaceM2) ==
    Max(standardPit.minWidth * standardPit.minWidth,
        Min(standardPit.maxWidth * standardPit.maxWidth, openSpaceM2 * 60))

\* Lines 114-116, in 1/VolUnit m3: pitArea * depth * porosity * percolation.
rechargeCapacityPerPit(openSpaceM2) ==
    (pitArea(openSpaceM2) * standardPit.depth * filterMediaPorosity * percolationFactor
        * (VolUnit \div 1000))

\* numPitsToRecommend with Math.floor for Math.ceil.
numPitsToRecommend_floor(remaining, openSpaceM2) ==
    Min(remaining \div rechargeCapacityPerPit(openSpaceM2), 3)

\* Lines 119-120: Math.min(Math.ceil(remaining / rechargeCapacityPerPit), 3).
numPitsToRecommend(remaining, openSpaceM2) ==
    Min(CeilDiv(remaining, rechargeCapacityPerPit(openSpaceM2)), 3)

\* Lines 121-129: the entry pushed for the pits;
\* costPerPit = baseCost + costPerCubicMeter * pitArea * depth, here in 1/100 INR.
pitEntry(remaining, openSpaceM2) ==
    LET costPerPit == standardPit.baseCost * 100
                      + standardPit.costPerCubicMeter * pitArea(openSpaceM2) * standardPit.depth
        n == numPitsToRecommend(remaining, openSpaceM2)
    IN  [type |-> "pit",
         dimensions |-> [areaM2 |-> RoundDiv(pitArea(openSpaceM2), 10),
                         depthM |-> standardPit.depth * 10],
         volumeM3 |-> VolToFixed1(rechargeCapacityPerPit(openSpaceM2) * n),
         costInr |-> RoundDiv(costPerPit * n, 100),
         count |-> n]

\* recommendStructure with every rule computing from the full target volume.
recommendStructure_fullTarget(harvestVolumeM3, openSpaceM2, depthToGroundwaterM, dwellers) ==
    LET target == targetRechargeVolumeM3(harvestVolumeM3, dwellers)
    IN  IF noPracticalSpace(openSpaceM2) THEN << >>
        ELSE IF negligibleVolume(target) THEN << >>
        ELSE (IF shaftEligible(target, openSpaceM2, depthToGroundwaterM)
              THEN <<shaftEntry(depthToGroundwaterM)>> ELSE << >>)
          \o (IF trenchBuilt(target, openSpaceM2)
              THEN <<trenchEntry(target, openSpaceM2)>> ELSE << >>)
          \o (IF pitEligible(target, openSpaceM2) /\ rechargeCapacityPerPit(openSpaceM2) > 0
              THEN <<pitEntry(target, openSpaceM2)>> ELSE << >>)

\* Lines 20-134.
recommendStructure(harvestVolumeM3, openSpaceM2, depthToGroundwaterM, dwellers) ==
    LET target == targetRechargeVolumeM3(harvestVolumeM3, dwellers)
        rem1 == afterShaft(target, openSpaceM2, depthToGroundwaterM)
        rem2 == afterTrench(rem1, openSpaceM2)
    IN  IF noPracticalSpace(openSpaceM2) THEN << >>
        ELSE IF negligibleVolume(target) THEN << >>
        ELSE (IF shaftEligible(target, openSpaceM2, depthToGroundwaterM)
              THEN <<shaftEntry(depthToGroundwaterM)>> ELSE << >>)
          \o (IF trenchBuilt(rem1, openSpaceM2)
              THEN <<trenchEntry(rem1, openSpaceM2)>> ELSE << >>)
          \o (IF pitEligible(rem2, openSpaceM2) /\ rechargeCapacityPerPit(openSpaceM2) > 0
              THEN <<pitEntry(rem2, openSpaceM2)>> ELSE << >>)

\* calculateCostBenefit that also leaves the payback null when the cost is 0.
calculateCostBenefit_costGuard(cost, annualHarvestM3) ==
    LET annualSavingsInr == RoundDiv(annualHarvestM3, VolUnit \div 20)
    IN  [paybackPeriodYears |->
            IF annualSavingsInr > 0 /\ cost > 0
            THEN RoundDiv(cost * 10, annualSavingsInr) ELSE null,
         annualSavingsInr |-> annualSavingsInr]

\* Lines 137-150; annualHarvestM3 * 20 = annualHarvestM3[1/VolUnit] / (VolUnit / 20).
calculateCostBenefit(cost, annualHarvestM3) ==
    LET waterCostPerM3_INR == 20
        annualSavingsInr == IF annualHarvestM3 = NaN THEN NaN
                            ELSE RoundDiv(annualHarvestM3, VolUnit \div waterCostPerM3_INR)
    IN  [paybackPeriodYears |->
            IF Gt(annualSavingsInr, 0) THEN RoundDiv(cost * 10, annualSavingsInr) ELSE null,
         annualSavingsInr |-> annualSavingsInr]

\* normalizedLat without the clamp to [0, 1].
normalizedLat_noClamp(lat) == lat - 8

\* Lines 159-164, in 1/29: Math.max(0, Math.min(1, (lat - minLat) / (maxLat - minLat))).
normalizedLat(lat) == Max(0, Min(37 - 8, lat - 8))

\* Line 166, in 1/29 mm: maxRain - normalizedLat * (maxRain - minRain).
baseRain(lat) == 2500 * (37 - 8) - normalizedLat(lat) * (2500 - 300)

\* The rainfall values of the model, in mm.
RainGrid == {50 * q : q \in 0..60}

\* annualRainDraws with a jitter of +-400 mm.
annualRainDraws_jitter400(lat) ==
    {x \in RainGrid : /\ (37 - 8) * x >= baseRain(lat) - 400 * (37 - 8)
                      /\ (37 - 8) * x < baseRain(lat) + 400 * (37 - 8)}

\* Line 167: baseRain + (Math.random() - 0.5) * 200 for Math.random() in [0, 1),
\* the values of it that lie on the grid.
annualRainDraws(lat) ==
    {x \in RainGrid : /\ (37 - 8) * x >= baseRain(lat) - 100 * (37 - 8)
                      /\ (37 - 8) * x < baseRain(lat) + 100 * (37 - 8)}

\* The groundwater depths of the model, in m.
DepthGrid == {5, 12, 13, 20, 36, 44}

\* depthDraws from the range of the fallback zone, whatever zone was resolved.
depthDraws_fallback(zone) ==
    {d \in DepthGrid : /\ d >= FALLBACK_ZONE.depthToGroundwaterRangeM[1]
                       /\ d < FALLBACK_ZONE.depthToGroundwaterRangeM[2]}

\* Lines 171-172: minDepth + Math.random() * (maxDepth - minDepth) for Math.random()
\* in [0, 1), the values of it that lie on the grid.
depthDraws(zone) ==
    {d \in DepthGrid : /\ d >= zone.depthToGroundwaterRangeM[1]
                       /\ d < zone.depthToGroundwaterRangeM[2]}

\* monsoonRainMm dividing by 0.8 where the code multiplies.
monsoonRainMm_divided(annualRainMm) == (annualRainMm * 10) \div 8

\* Line 176
monsoonRainMm(annualRainMm) == (annualRainMm * 8) \div 10

\* feasibilityScore with the rainfall ratio upside down (1200 / annualRainMm).
feasibilityScore_inverseRain(roofAreaM2, annualRainMm, openSpaceM2) ==
    roofAreaM2 * 6 * 30 + ((1200 * 1200) \div annualRainMm) * 30 + 25 * 1200
        + openSpaceM2 * 24 * 15

\* Line 185, times 1200: (roofAreaM2 / 200) * 30 + (annualRainMm / 1200) * 30 + 25
\*                        + (openSpaceM2 / 50) * 15.
feasibilityScore(roofAreaM2, annualRainMm, openSpaceM2) ==
    roofAreaM2 * 6 * 30 + annualRainMm * 30 + 25 * 1200 + openSpaceM2 * 24 * 15

\* feasibilityTier with the thresholds taken strictly (> 75, > 40).
feasibilityTier_strict(roofAreaM2, annualRainMm, openSpaceM2) ==
    LET score == feasibilityScore(roofAreaM2, annualRainMm, openSpaceM2)
    IN  IF score > 75 * 1200 THEN "Green"
        ELSE IF score > 40 * 1200 THEN "Yellow"
        ELSE "Red"

\* Lines 186-188
feasibilityTier(roofAreaM2, annualRainMm, openSpaceM2) ==
    LET score == feasibilityScore(roofAreaM2, annualRainMm, openSpaceM2)
    IN  IF score >= 75 * 1200 THEN "Green"
        ELSE IF score >= 40 * 1200 THEN "Yellow"
        ELSE "Red"

\* spaceTooLimited without the test of the harvest volume.
spaceTooLimited_anyEmpty(recommendedStructures, monsoonHarvestM3) ==
    Len(recommendedStructures) = 0

\* Line 196: no structure could be recommended despite harvestable volume.
spaceTooLimited(recommendedStructures, monsoonHarvestM3) ==
    Len(recommendedStructures) = 0 /\ Gt(monsoonHarvestM3, 2 * VolUnit)

\* Lines 193-198: the note is the zone's description or the space-constraint text.
aquiferNote(zone, openSpaceM2, recommendedStructures, monsoonHarvestM3) ==
    IF spaceTooLimited(recommendedStructures, monsoonHarvestM3)
    THEN <<"the available open space is too limited", openSpaceM2>>
    ELSE <<"This area is part of the", zone.name>>

RECURSIVE SumCost(_)
\* recommendedStructures.reduce((sum, s) => sum + s.costInr, 0)
SumCost(structures) ==
    IF structures = << >> THEN 0
    ELSE Head(structures).costInr + SumCost(Tail(structures))

\* structuresFor that recommends only to a caller who consented to storage.
structuresFor_consent(in, monsoonHarvestM3, depthToGroundwaterM) ==
    IF in.consentToStore
    THEN recommendStructure(monsoonHarvestM3, in.openSpaceM2, depthToGroundwaterM, in.dwellers)
    ELSE << >>

\* structuresFor with the roof area passed where the open space belongs.
structuresFor_roofArea(in, monsoonHarvestM3, depthToGroundwaterM) ==
    recommendStructure(monsoonHarvestM3, in.roofAreaM2, depthToGroundwaterM, in.dwellers)

\* Line 182: the arguments recommendStructure is called with.
structuresFor(in, monsoonHarvestM3, depthToGroundwaterM) ==
    recommendStructure(monsoonHarvestM3, in.openSpaceM2, depthToGroundwaterM, in.dwellers)

\* The unrounded locals of the timer callback, lines 157-190.
Locals(in, annualRainMm, depthToGroundwaterM) ==
    LET runoffCoeff == RoofCoefficient(in.roofType)
        annualHarvestM3 == calculateHarvestableVolume(annualRainMm, in.roofAreaM2, runoffCoeff)
        monsoonHarvestM3 ==
            calculateHarvestableVolume(monsoonRainMm(annualRainMm), in.roofAreaM2, runoffCoeff)
    IN  [annualRainMm |-> annualRainMm,
         monsoonRainMm |-> monsoonRainMm(annualRainMm),
         zone |-> getHydrogeologicalZone(in.lat),
         depthToGroundwaterM |-> depthToGroundwaterM,
         annualHarvestM3 |-> annualHarvestM3,
         monsoonHarvestM3 |-> monsoonHarvestM3,
         targetRechargeVolumeM3 |-> targetRechargeVolumeM3(monsoonHarvestM3, in.dwellers),
         recommendedStructures |-> structuresFor(in, monsoonHarvestM3, depthToGroundwaterM)]

\* Lines 201-215: the AssessmentResult.
Result(in, l) ==
    LET recommendedStructures == l.recommendedStructures
        totalCost == SumCost(recommendedStructures)
    IN  [annualRainMm |-> l.annualRainMm * 10,
         monsoonRainMm |-> l.monsoonRainMm * 10,
         runoffCoeff |-> RoofCoefficient(in.roofType),
         annualHarvestM3 |-> IF l.annualHarvestM3 = NaN THEN NaN ELSE VolToFixed1(l.annualHarvestM3),
         monsoonHarvestM3 |-> IF l.monsoonHarvestM3 = NaN THEN NaN ELSE VolToFixed1(l.monsoonHarvestM3),
         recommendedStructures |-> recommendedStructures,
         depthToGroundwaterM |-> l.depthToGroundwaterM * 10,
         aquiferNote |-> aquiferNote(l.zone, in.openSpaceM2, recommendedStructures, l.monsoonHarvestM3),
         feasibility |-> feasibilityTier(in.roofAreaM2, l.annualRainMm, in.openSpaceM2),
         costEstimateInr |-> totalCost,
         costBenefit |-> calculateCostBenefit(totalCost, l.annualHarvestM3),
         locationName |-> "your selected area",
         systemEfficiency |-> SYSTEM_EFFICIENCY]

(***************************************************************************)
(* The inputs of the model.                                                *)
(***************************************************************************)
MaxDwellers == 4

Lats == {5, 13, 24, 37, 60}
RoofAreas == {0, 1, 20, 100, 300}
OpenSpaces == {0, 1, 2, 4, 10, 50}
Dwellers == 0..MaxDwellers
\* the five roof materials and a value outside the enumeration
RoofTypeValues == RoofTypes \cup {"slate"}

AssessmentInput ==
    [lat : Lats, lon : {78}, roofAreaM2 : RoofAreas, roofType : RoofTypeValues,
     openSpaceM2 : OpenSpaces, dwellers : Dwellers, consentToStore : {FALSE}]

NoInvocation == [pc |-> "idle", input |-> Unset, locals |-> Unset, result |-> Unset]

EngineInit ==
    /\ pc = "idle" /\ input = Unset /\ locals = Unset /\ result = Unset
    /\ other = NoInvocation
HarnessInit == fn = None /\ args = None /\ ret = None /\ prevArgs = None /\ prevRet = None

(***************************************************************************)
(* postAssess: the promise is created and the timer set (lines 152-154),   *)
(* the timer callback computes the result and resolves (lines 155-218),    *)
(* and the awaiting caller takes the result.                               *)
(***************************************************************************)
postAssess(in) ==
    /\ pc = "idle"
    /\ pc' = "pending"
    /\ input' = in
    /\ UNCHANGED <<locals, result, other>>
    /\ UNCHANGED <<harnessVars, uiVars>>

\* timerFires calling a reject callback where the code resolves.
timerFires_rejects ==
    /\ pc = "pending"
    /\ pc' = "rejected"
    /\ UNCHANGED <<input, locals, result, other>>
    /\ UNCHANGED <<harnessVars, uiVars>>

\* Lines 154-218: the callback of setTimeout runs once, 1500 ms after the call.
timerFires ==
    /\ pc = "pending"
    /\ pc' = "resolved"
    /\ \E annualRainMm \in annualRainDraws(input.lat) :
       \E depthToGroundwaterM \in depthDraws(getHydrogeologicalZone(input.lat)) :
          /\ locals' = Locals(input, annualRainMm, depthToGroundwaterM)
          /\ result' = Result(input, locals')
    /\ UNCHANGED <<input, other>>
    /\ UNCHANGED <<harnessVars, uiVars>>

awaitReturns ==
    /\ pc = "resolved"
    /\ pc' = "idle"
    /\ input' = Unset /\ locals' = Unset /\ result' = Unset
    /\ UNCHANGED other
    /\ UNCHANGED <<harnessVars, uiVars>>

\* App.tsx lines 17-18 and Select.tsx lines 44-47: the initial values of useState.
\* Before the wizard is mounted its state holds what useState will give it.
nullResults == [isNull |-> TRUE]
nullError == "null"

WizardInit ==
    /\ step = 1 /\ isLoading = FALSE /\ error = nullError
    /\ formData = DEFAULT_INPUT_VALUES

UiInit == appState = "LANDING" /\ results = nullResults /\ WizardInit

Init == EngineInit /\ HarnessInit /\ UiInit

Next ==
    \/ \E in \in AssessmentInput : postAssess(in)
    \/ timerFires
    \/ awaitReturns

Spec == Init /\ [][Next]_vars

\* setTimeout(callback, 1500): a timer that was set does fire.
FairSpec == Spec /\ WF_vars(timerFires)

\* postAssess over every whole latitude from 0 to 50, for a household with or without
\* a roof area and an open space.
RainLats == 0..50

RainInput ==
    [lat : RainLats, lon : {78}, roofAreaM2 : {0, 100}, roofType : {"rcc"},
     openSpaceM2 : {0, 10}, dwellers : {2}, consentToStore : {FALSE}]

RainNext ==
    \/ \E in \in RainInput : postAssess(in)
    \/ timerFires
    \/ awaitReturns

RainSpec == Init /\ [][RainNext]_vars

(***************************************************************************)
(* Two callers: each invocation of postAssess has its own promise, its own *)
(* timer and its own closure over input; the two timers fire in any order. *)
(***************************************************************************)
PairInput ==
    [lat : {13, 24}, lon : {72, 88}, roofAreaM2 : {100}, roofType : {"rcc"},
     openSpaceM2 : {50}, dwellers : {4}, consentToStore : BOOLEAN]

otherPostAssess(in) ==
    /\ other.pc = "idle"
    /\ other' = [other EXCEPT !.pc = "pending", !.input = in]
    /\ UNCHANGED <<pc, input, locals, result>>
    /\ UNCHANGED <<harnessVars, uiVars>>

otherTimerFires ==
    /\ other.pc = "pending"
    /\ \E annualRainMm \in annualRainDraws(other.input.lat) :
       \E depthToGroundwaterM \in depthDraws(getHydrogeologicalZone(other.input.lat)) :
          LET l == Locals(other.input, annualRainMm, depthToGroundwaterM)
          IN  other' = [pc |-> "resolved", input |-> other.input, locals |-> l,
                        result |-> Result(other.input, l)]
    /\ UNCHANGED <<pc, input, locals, result>>
    /\ UNCHANGED <<harnessVars, uiVars>>

otherAwaitReturns ==
    /\ other.pc = "resolved"
    /\ other' = NoInvocation
    /\ UNCHANGED <<pc, input, locals, result>>
    /\ UNCHANGED <<harnessVars, uiVars>>

PairNext ==
    \/ \E in \in PairInput : postAssess(in)
    \/ timerFires
    \/ awaitReturns
    \/ \E in \in PairInput : otherPostAssess(in)
    \/ otherTimerFires
    \/ otherAwaitReturns

PairSpec == Init /\ [][PairNext]_vars

(***************************************************************************)
(* The pure functions applied on their own: one application at a time,     *)
(* its arguments and its value kept until it returns.                      *)
(***************************************************************************)
MaxHarvestSteps == 30
MaxHarvestTicks == 30
MaxScoreSteps == 4

RecHarvests ==
    {k * 10 * VolUnit : k \in (-1)..MaxHarvestSteps}
        \cup {k * VolUnit : k \in {2, 3, 6, 7, 8}}
RecOpenSpaces == {0, 1, 2, 3, 4, 9, 10, 20, 50}
RecDepths == {null, 0, 5, 12, 13, 20, 44}
RecDwellers == {-1, 0, 2, 3, 6, 9}

RecArgs ==
    [harvestVolumeM3 : RecHarvests, openSpaceM2 : RecOpenSpaces,
     depthToGroundwaterM : RecDepths, dwellers : RecDwellers]

applyRecommendStructure(a) ==
    /\ fn = None
    /\ fn' = "recommendStructure"
    /\ args' = a
    /\ ret' = recommendStructure(a.harvestVolumeM3, a.openSpaceM2,
                                 a.depthToGroundwaterM, a.dwellers)
    /\ UNCHANGED <<prevArgs, prevRet>>
    /\ UNCHANGED <<engineVars, uiVars>>

harnessReturns ==
    /\ fn # None
    /\ fn' = None /\ args' = None /\ ret' = None /\ prevArgs' = None /\ prevRet' = None
    /\ UNCHANGED <<engineVars, uiVars>>

RecNext ==
    \/ \E a \in RecArgs : applyRecommendStructure(a)
    \/ harnessReturns

RecSpec == Init /\ [][RecNext]_vars

\* calculateCostBenefit: costs in INR, annual harvests in steps of 0.005 m3 and two large ones.
CbCosts == {0, 1, 2, 3, 7, 2500, 14500}
CbHarvests ==
    {k * (VolUnit \div 200) : k \in 0..MaxHarvestTicks} \cup {100 * VolUnit, 650 * VolUnit}

applyCalculateCostBenefit(cost, annualHarvestM3) ==
    /\ fn = None
    /\ fn' = "calculateCostBenefit"
    /\ args' = [cost |-> cost, annualHarvestM3 |-> annualHarvestM3]
    /\ ret' = calculateCostBenefit(cost, annualHarvestM3)
    /\ UNCHANGED <<prevArgs, prevRet>>
    /\ UNCHANGED <<engineVars, uiVars>>

CbNext ==
    \/ \E cost \in CbCosts : \E h \in CbHarvests : applyCalculateCostBenefit(cost, h)
    \/ harnessReturns

CbSpec == Init /\ [][CbNext]_vars

\* The feasibility tier, evaluated and then evaluated again with one input raised.
ScoreAreas == {k * 60 : k \in 0..MaxScoreSteps}
ScoreRains == {200 + k * 600 : k \in 0..MaxScoreSteps}
ScoreSpaces == {k * 25 : k \in 0..MaxScoreSteps}

evaluateFeasibility(a) ==
    /\ fn = None
    /\ fn' = "feasibility"
    /\ args' = a
    /\ ret' = feasibilityTier(a.roofAreaM2, a.annualRainMm, a.openSpaceM2)
    /\ UNCHANGED <<prevArgs, prevRet>>
    /\ UNCHANGED <<engineVars, uiVars>>

reevaluate(a) ==
    /\ fn' = fn
    /\ prevArgs' = args
    /\ prevRet' = ret
    /\ args' = a
    /\ ret' = feasibilityTier(a.roofAreaM2, a.annualRainMm, a.openSpaceM2)
    /\ UNCHANGED <<engineVars, uiVars>>

largerRoofArea ==
    /\ fn = "feasibility"
    /\ \E x \in ScoreAreas : x > args.roofAreaM2 /\ reevaluate([args EXCEPT !.roofAreaM2 = x])

largerRainfall ==
    /\ fn = "feasibility"
    /\ \E x \in ScoreRains : x > args.annualRainMm /\ reevaluate([args EXCEPT !.annualRainMm = x])

largerOpenSpace ==
    /\ fn = "feasibility"
    /\ \E x \in ScoreSpaces : x > args.openSpaceM2 /\ reevaluate([args EXCEPT !.openSpaceM2 = x])

ScoreNext ==
    \/ \E a \in [roofAreaM2 : ScoreAreas, annualRainMm : ScoreRains, openSpaceM2 : ScoreSpaces] :
          evaluateFeasibility(a)
    \/ largerRoofArea
    \/ largerRainfall
    \/ largerOpenSpace
    \/ harnessReturns

ScoreSpec == Init /\ [][ScoreNext]_vars

\* getHydrogeologicalZone: every whole latitude of the globe.
MaxLat == 90
ZoneLats == (-MaxLat)..MaxLat

applyGetHydrogeologicalZone(lat) ==
    /\ fn = None
    /\ fn' = "getHydrogeologicalZone"
    /\ args' = [lat |-> lat]
    /\ ret' = getHydrogeologicalZone(lat)
    /\ UNCHANGED <<prevArgs, prevRet>>
    /\ UNCHANGED <<engineVars, uiVars>>

ZoneNext ==
    \/ \E lat \in ZoneLats : applyGetHydrogeologicalZone(lat)
    \/ harnessReturns

ZoneSpec == Init /\ [][ZoneNext]_vars

(***************************************************************************)
(* The screens: App (src/App.tsx) shows the landing page, the wizard or    *)
(* the results; AssessmentWizard (src/components/ui/Select.tsx from line   *)
(* 25) collects the form in two steps and calls postAssess.                *)
(***************************************************************************)
\* What the user can type in or pick: the text of a number field, an option of the
\* roof-type select, a place on the map, an area drawn on the map.
RoofAreaTexts == {"", "0", "100"}
OpenSpaceTexts == {"", "0", "10", "-5"}
DwellerTexts == {"", "0", "2"}
MapLocations == {<<21, 79>>, <<13, 78>>, <<0, 78>>}
MapAreas == {0, 100}

FieldValues(name) ==
    CASE name = "roofAreaM2" -> RoofAreaTexts
      [] name = "roofType" -> RoofTypes
      [] name = "openSpaceM2" -> OpenSpaceTexts
      [] name = "dwellers" -> DwellerTexts
      [] name = "consentToStore" -> BOOLEAN

\* Select.tsx lines 153-232: the fields each step renders.
FieldsOfStep(s) ==
    IF s = 1 THEN {"roofAreaM2", "roofType"}
    ELSE {"openSpaceM2", "dwellers", "consentToStore"}

\* Number(text): the empty string is 0, a decimal numeral its value, anything else NaN.
NumberRange == -5..100

Number(text) ==
    IF text = "" THEN 0
    ELSE IF \E n \in NumberRange : text \in {ToString(n), ToString(n) \o ".00"}
         THEN CHOOSE n \in NumberRange : text \in {ToString(n), ToString(n) \o ".00"}
         ELSE NaN

\* area.toFixed(2) of a whole number of square metres
toFixed2(area) == ToString(area) \o ".00"

\* the truthiness of a number and of a string
truthyNumber(n) == n # 0 /\ n # NaN
truthyString(text) == text # ""

\* Select.tsx lines 72-80.
validateStep ==
    IF step = 1
    THEN /\ truthyNumber(formData.lat)
         /\ truthyNumber(formData.lon)
         /\ Number(formData.roofAreaM2) > 0
         /\ truthyString(formData.roofType)
    ELSE IF step = 2
    THEN /\ Number(formData.openSpaceM2) >= 0
         /\ Number(formData.dwellers) > 0
    ELSE FALSE

\* the form is on screen: the wizard is mounted and not showing the spinner
\* (App.tsx line 34, Select.tsx lines 134-142)
formShown == appState = "ASSESSING" /\ ~isLoading

\* handleStartAssessment that leaves the earlier results in place.
handleStartAssessment_keepsResults ==
    /\ \/ appState = "LANDING"
       \/ appState = "SHOWING_RESULTS" /\ results # nullResults
    /\ appState' = "ASSESSING"
    /\ UNCHANGED results
    /\ step' = 1 /\ isLoading' = FALSE /\ error' = nullError
    /\ formData' = DEFAULT_INPUT_VALUES
    /\ UNCHANGED <<engineVars, harnessVars>>

\* App.tsx lines 20-23, from the button of LandingPage (line 32) or the reset button
\* of ResultsDisplay, rendered only when results is not null (line 36); the wizard is
\* mounted with the initial values of its useState (Select.tsx lines 44-47).
handleStartAssessment ==
    /\ \/ appState = "LANDING"
       \/ appState = "SHOWING_RESULTS" /\ results # nullResults
    /\ appState' = "ASSESSING"
    /\ results' = nullResults
    /\ step' = 1 /\ isLoading' = FALSE /\ error' = nullError
    /\ formData' = DEFAULT_INPUT_VALUES
    /\ UNCHANGED <<engineVars, harnessVars>>

\* Select.tsx lines 49-58: a field of the step on screen takes the value typed,
\* picked or ticked.
handleInputChange(name, value) ==
    /\ formShown
    /\ name \in FieldsOfStep(step)
    /\ formData' = [formData EXCEPT ![name] = value]
    /\ UNCHANGED <<appState, results, step, isLoading, error>>
    /\ UNCHANGED <<engineVars, harnessVars>>

\* Select.tsx lines 60-62, from the MapSelector of step 1.
handleLocationChange(lat, lon) ==
    /\ formShown /\ step = 1
    /\ formData' = [formData EXCEPT !.lat = lat, !.lon = lon]
    /\ UNCHANGED <<appState, results, step, isLoading, error>>
    /\ UNCHANGED <<engineVars, harnessVars>>

\* Select.tsx lines 64-70, from the MapSelector of step 1.
handleAreaChange(area) ==
    /\ formShown /\ step = 1
    /\ formData' = [formData EXCEPT
                       !.roofAreaM2 = IF area > 0 THEN toFixed2(area) ELSE ""]
    /\ UNCHANGED <<appState, results, step, isLoading, error>>
    /\ UNCHANGED <<engineVars, harnessVars>>

\* Select.tsx lines 106-117: the AssessmentInput built from the form.
submittedInput ==
    [lat |-> formData.lat,
     lon |-> formData.lon,
     roofAreaM2 |-> Number(formData.roofAreaM2),
     roofType |-> formData.roofType,
     openSpaceM2 |-> Number(formData.openSpaceM2),
     dwellers |-> Number(formData.dwellers),
     consentToStore |-> formData.consentToStore]

\* Select.tsx lines 100-120, up to the await: validate again, show the spinner,
\* build the input and call postAssess (lines 152-154 of the service).
handleSubmit ==
    IF ~validateStep
    THEN UNCHANGED vars
    ELSE /\ isLoading' = TRUE
         /\ error' = nullError
         /\ pc = "idle"
         /\ pc' = "pending"
         /\ input' = submittedInput
         /\ UNCHANGED <<locals, result, other>>
         /\ UNCHANGED <<appState, results, step, formData>>
         /\ UNCHANGED harnessVars

\* Select.tsx lines 82-92.
handleNext ==
    /\ formShown
    /\ IF validateStep
       THEN IF step < TOTAL_STEPS
            THEN /\ step' = step + 1
                 /\ UNCHANGED <<appState, results, isLoading, error, formData>>
                 /\ UNCHANGED <<engineVars, harnessVars>>
            ELSE handleSubmit
       ELSE UNCHANGED vars

\* Select.tsx lines 94-98.
handleBack ==
    /\ formShown
    /\ IF step > 1
       THEN step' = step - 1
       ELSE UNCHANGED step
    /\ UNCHANGED <<appState, results, isLoading, error, formData>>
    /\ UNCHANGED <<engineVars, harnessVars>>

\* App.tsx lines 25-28.
handleAssessmentComplete(data) ==
    /\ results' = data
    /\ appState' = "SHOWING_RESULTS"

\* Select.tsx lines 120-121 and 129-131: the await returns with the result, onComplete
\* hands it to App, the spinner is put out; App shows the results and unmounts the
\* wizard, whose state is gone.
onComplete ==
    /\ appState = "ASSESSING" /\ isLoading
    /\ pc = "resolved"
    /\ handleAssessmentComplete(result)
    /\ pc' = "idle"
    /\ input' = Unset /\ locals' = Unset /\ result' = Unset
    /\ step' = 1 /\ isLoading' = FALSE /\ error' = nullError
    /\ formData' = DEFAULT_INPUT_VALUES
    /\ UNCHANGED other
    /\ UNCHANGED harnessVars

UiNext ==
    \/ handleStartAssessment
    \/ \E name \in {"roofAreaM2", "roofType", "openSpaceM2", "dwellers", "consentToStore"} :
          \E value \in FieldValues(name) : handleInputChange(name, value)
    \/ \E location \in MapLocations : handleLocationChange(location[1], location[2])
    \/ \E area \in MapAreas : handleAreaChange(area)
    \/ handleNext
    \/ handleBack
    \/ timerFires
    \/ onComplete

UiSpec == Init /\ [][UiNext]_vars

(***************************************************************************)
(* Properties.                                                             *)
(***************************************************************************)
resolved == pc = "resolved"

\* roof area > 0, a roof material of the enumeration, a household of at least one
validInput(in) == in.roofAreaM2 > 0 /\ in.roofType \in RoofTypes /\ in.dwellers >= 1

noteIsSpaceConstraint(note) == note[1] = "the available open space is too limited"
noteIsZoneDescription(note) == note[1] = "This area is part of the"

\* some entry of the list has this type, a positive volume and a positive cost
hasPositive(structures, type) ==
    \E i \in 1..Len(structures) :
        /\ structures[i].type = type
        /\ structures[i].volumeM3 > 0
        /\ structures[i].costInr > 0

hasType(structures, type) == \E i \in 1..Len(structures) : structures[i].type = type

\* C1: whenever postAssess resolves for an input with open space below 2 m2, whatever the
\* other inputs and the two random draws, the recommended-structure list is empty.
C1_NoSpaceNoStructure ==
    (resolved /\ input.openSpaceM2 < 2) => result.recommendedStructures = << >>

\* C1 witness: open space below 2 m2 with a deep water table and a target volume that
\* would otherwise call for structures.
C1_Witness ==
    /\ resolved
    /\ input.openSpaceM2 < 2
    /\ Gt(locals.targetRechargeVolumeM3, 40 * VolUnit)
    /\ isDeepWaterTable(locals.depthToGroundwaterM)
    /\ result.recommendedStructures = << >>

scenarioC2 ==
    /\ input.roofAreaM2 = 100
    /\ input.roofType = "rcc"
    /\ input.openSpaceM2 = 50
    /\ input.dwellers = 4
    /\ input.lat = 13

\* C2 as stated: for roof 100 m2, rcc, open space 50 m2, 4 dwellers, latitude 13, every
\* result has runoff coefficient 0.90, the Deccan zone, and a non-empty list that holds
\* a pit with positive volume and cost.
C2_ScenarioHasPit ==
    (resolved /\ scenarioC2) =>
        /\ result.runoffCoeff = 90
        /\ locals.zone.name = "Peninsular Hard Rock Zone (Deccan Plateau)"
        /\ result.recommendedStructures # << >>
        /\ hasPositive(result.recommendedStructures, "pit")

\* C2 amended: for that input every result has runoff coefficient 0.90, the Deccan zone,
\* and a non-empty list that holds a trench with positive volume and cost and no pit.
C2_ScenarioHasTrench ==
    (resolved /\ scenarioC2) =>
        /\ result.runoffCoeff = 90
        /\ locals.zone.name = "Peninsular Hard Rock Zone (Deccan Plateau)"
        /\ result.recommendedStructures # << >>
        /\ hasPositive(result.recommendedStructures, "trench")
        /\ ~hasType(result.recommendedStructures, "pit")

\* C2 witness: the scenario resolved over a deep water table, with a shaft and a trench.
C2_Witness ==
    /\ resolved
    /\ scenarioC2
    /\ Len(result.recommendedStructures) = 2
    /\ result.recommendedStructures[1].type = "shaft"
    /\ result.recommendedStructures[2].type = "trench"

\* C3 as stated: for every valid input with open space 1 m2 the list is empty and the
\* aquifer note is the space-constraint text, never the zone description.
C3_SpaceNoteAlways ==
    (resolved /\ input.openSpaceM2 = 1 /\ validInput(input)) =>
        /\ result.recommendedStructures = << >>
        /\ noteIsSpaceConstraint(result.aquiferNote)

\* C3 amended: for every valid input with open space 1 m2 the list is empty, and the
\* aquifer note is the space-constraint text exactly when the unrounded monsoon harvest
\* is above 2 m3; otherwise it is the zone description.
C3_SpaceNoteWhenHarvest ==
    (resolved /\ input.openSpaceM2 = 1 /\ validInput(input)) =>
        /\ result.recommendedStructures = << >>
        /\ noteIsSpaceConstraint(result.aquiferNote) <=> locals.monsoonHarvestM3 > 2 * VolUnit
        /\ noteIsZoneDescription(result.aquiferNote) <=> locals.monsoonHarvestM3 <= 2 * VolUnit

\* C3 witness: open space 1 m2, a valid input, a monsoon harvest of at most 2 m3 and
\* the zone description as the note.
C3_Witness ==
    /\ resolved
    /\ input.openSpaceM2 = 1
    /\ validInput(input)
    /\ locals.monsoonHarvestM3 > 0
    /\ locals.monsoonHarvestM3 <= 2 * VolUnit
    /\ noteIsZoneDescription(result.aquiferNote)

\* Open space is what prevented a structure: the target volume is above the negligible
\* threshold and with ample space (100 m2) some rule would have fired.
spaceIsTheCause ==
    /\ ~negligibleVolume(locals.targetRechargeVolumeM3)
    /\ recommendStructure(locals.monsoonHarvestM3, 2 * 50, locals.depthToGroundwaterM,
                          input.dwellers) # << >>

\* C4: whenever the list is empty (valid input), the note is the space-constraint text
\* only when open space is what prevented a structure, and is not that text when the
\* list is empty because the target volume is below the rules' volume thresholds.
C4_NoteTellsTheCause ==
    (resolved /\ validInput(input) /\ result.recommendedStructures = << >>) =>
        (noteIsSpaceConstraint(result.aquiferNote) => spaceIsTheCause)

invalidInput(in) ==
    \/ in.roofAreaM2 <= 0
    \/ in.dwellers <= 0
    \/ ~(in.lat >= 0 /\ in.lat < 50)

\* C5: postAssess never resolves with a result for an invalid input (roof area <= 0,
\* household size <= 0, latitude outside [0, 50)).
C5_InvalidInputRejected == resolved => ~invalidInput(input)

\* C6: the runoff coefficient of every result is the table value of the supplied roof
\* material, and no result is produced for a roof type outside the table.
C6_CoefficientFromTable ==
    resolved =>
        /\ input.roofType \in RoofTypes
        /\ result.runoffCoeff = ROOF_COEFFICIENTS[input.roofType]

\* C7: for every input with roof area > 0 and a known roof type, and every rainfall
\* draw, annual harvest >= monsoon harvest >= 0, before and after rounding to one decimal.
C7_AnnualAtLeastMonsoon ==
    (resolved /\ input.roofAreaM2 > 0 /\ input.roofType \in RoofTypes) =>
        /\ locals.annualHarvestM3 >= locals.monsoonHarvestM3
        /\ locals.monsoonHarvestM3 >= 0
        /\ result.annualHarvestM3 >= result.monsoonHarvestM3
        /\ result.monsoonHarvestM3 >= 0

\* C7 witness: a valid input whose annual harvest is strictly above the monsoon harvest
\* and whose rounded values coincide.
C7_Witness ==
    /\ resolved
    /\ input.roofAreaM2 > 0
    /\ input.roofType \in RoofTypes
    /\ locals.annualHarvestM3 > locals.monsoonHarvestM3
    /\ locals.monsoonHarvestM3 > 0
    /\ result.annualHarvestM3 = result.monsoonHarvestM3

\* C8: every structure recommendStructure returns, for any harvest volume, open space,
\* groundwater depth (null included) and household size, has cost >= 0, volume >= 0
\* and a count that is present and >= 1.
C8_StructuresWellFormed ==
    fn = "recommendStructure" =>
        \A i \in 1..Len(ret) :
            /\ ret[i].costInr >= 0
            /\ ret[i].volumeM3 >= 0
            /\ "count" \in DOMAIN ret[i]
            /\ ret[i].count >= 1

\* C8 witness: all three rules fired, the pit rule with fewer pits than the cap.
C8_Witness ==
    /\ fn = "recommendStructure"
    /\ Len(ret) = 3
    /\ ret[3].type = "pit"
    /\ ret[3].count < 3

TierRank(tier) == CASE tier = "Red" -> 0 [] tier = "Yellow" -> 1 [] tier = "Green" -> 2

\* the second evaluation differs from the first by one larger input
oneInputLarger(a, b) ==
    \/ b.roofAreaM2 > a.roofAreaM2 /\ b.annualRainMm = a.annualRainMm /\ b.openSpaceM2 = a.openSpaceM2
    \/ b.roofAreaM2 = a.roofAreaM2 /\ b.annualRainMm > a.annualRainMm /\ b.openSpaceM2 = a.openSpaceM2
    \/ b.roofAreaM2 = a.roofAreaM2 /\ b.annualRainMm = a.annualRainMm /\ b.openSpaceM2 > a.openSpaceM2

\* C9: of two evaluations of the feasibility tier that differ only by a larger roof
\* area, a larger annual rainfall or a larger open space, the tier of the larger one is
\* never lower in the order Red < Yellow < Green.
C9_TierMonotonic ==
    (fn = "feasibility" /\ prevRet # None /\ oneInputLarger(prevArgs, args)) =>
        TierRank(ret) >= TierRank(prevRet)

\* C9 witness: a larger open space alone moved the tier from Yellow to Green.
C9_Witness ==
    /\ fn = "feasibility"
    /\ prevRet = "Yellow"
    /\ ret = "Green"
    /\ args.openSpaceM2 > prevArgs.openSpaceM2

Abs(x) == IF x >= 0 THEN x ELSE -x

isNumber(x) == x # NaN /\ x # undefined /\ x # null

\* every field of the AssessmentResult is set
populated(r) ==
    /\ isNumber(r.annualRainMm) /\ isNumber(r.monsoonRainMm)
    /\ isNumber(r.runoffCoeff)
    /\ isNumber(r.annualHarvestM3) /\ isNumber(r.monsoonHarvestM3)
    /\ Len(r.recommendedStructures) >= 0
    /\ isNumber(r.depthToGroundwaterM)
    /\ Len(r.aquiferNote) > 0
    /\ r.feasibility \in {"Green", "Yellow", "Red"}
    /\ isNumber(r.costEstimateInr)
    /\ isNumber(r.costBenefit.annualSavingsInr)
    /\ r.costBenefit.paybackPeriodYears # NaN /\ r.costBenefit.paybackPeriodYears # undefined
    /\ r.locationName = "your selected area"
    /\ isNumber(r.systemEfficiency)

\* C11: for every valid input a call of postAssess eventually completes, exactly once,
\* with a populated AssessmentResult (depthToGroundwaterM not null, the structure list
\* possibly empty); the promise resolves when the timer has fired and is never rejected.
C11_ResolvesOnce ==
    /\ [](pc # "rejected")
    /\ []((resolved /\ validInput(input)) => populated(result))
    /\ [][pc = "pending" => (pc' = "resolved" /\ input' = input)]_vars
    /\ [][pc = "resolved" => pc' = "idle"]_vars
    /\ (pc = "pending" /\ validInput(input)) ~> (resolved /\ populated(result))

\* C11 witness: a valid input resolved with a populated result and an empty list.
C11_Witness ==
    /\ resolved
    /\ validInput(input)
    /\ populated(result)
    /\ result.recommendedStructures = << >>
    /\ result.costBenefit.paybackPeriodYears # null

zoneContains(zone, lat) == lat >= zone.latRange[1] /\ lat < zone.latRange[2]

\* C12: getHydrogeologicalZone(lat) is the first zone in the order of the table whose
\* range [low, high) contains lat, and is the fallback zone 'Mixed Geological Area'
\* exactly when no zone of the table contains lat, that is when lat < 8 or lat >= 32;
\* lat 12 gives the Deccan zone, lat 24 Central Highlands, lat 25 Northern Alluvial Plains.
C12_FirstMatchOrFallback ==
    fn = "getHydrogeologicalZone" =>
        LET lat == args.lat
            matches == {i \in 1..Len(ZONES) : zoneContains(ZONES[i], lat)}
        IN  /\ \/ /\ matches = {}
                  /\ ret = FALLBACK_ZONE
               \/ \E i \in matches :
                     /\ ret = ZONES[i]
                     /\ \A j \in 1..(i - 1) : j \notin matches
            /\ ret.name = "Mixed Geological Area" <=> matches = {}
            /\ matches = {} <=> (lat < 8 \/ lat >= 32)
            /\ lat = 12 => ret.name = "Peninsular Hard Rock Zone (Deccan Plateau)"
            /\ lat = 24 => ret.name = "Central Highlands (Bundelkhand, etc.)"
            /\ lat = 25 => ret.name = "Northern Alluvial Plains (Indo-Gangetic)"

\* C12 witness: a latitude inside two ranges of the table, resolved to the earlier zone.
C12_Witness ==
    /\ fn = "getHydrogeologicalZone"
    /\ args.lat = 24
    /\ zoneContains(ZONES[2], 24) /\ zoneContains(ZONES[5], 24)
    /\ ret = ZONES[2]

\* The application of recommendStructure under observation: its target volume, and the
\* volume left for the trench rule and for the pit rule, from the entries it returned.
argTarget == targetRechargeVolumeM3(args.harvestVolumeM3, args.dwellers)

remainingForTrench ==
    argTarget - (IF hasType(ret, "shaft") THEN shaftRechargeCapacity(args.depthToGroundwaterM)
                 ELSE 0)

remainingForPit ==
    remainingForTrench
        - (IF hasType(ret, "trench")
           THEN Min(remainingForTrench, Min(args.openSpaceM2, 40) * 3 * VolUnit) ELSE 0)

TypeRank(type) == CASE type = "shaft" -> 1 [] type = "trench" -> 2 [] type = "pit" -> 3

\* C13: the list recommendStructure returns holds at most one shaft, one trench and one
\* pit entry, in the order shaft, trench, pit; a structure whose guard fails is absent,
\* and no entry has volumeM3 equal to 0.
C13_OneOfEachInOrder ==
    fn = "recommendStructure" =>
        /\ \A i, j \in 1..Len(ret) : i < j => TypeRank(ret[i].type) < TypeRank(ret[j].type)
        /\ \A i \in 1..Len(ret) : ret[i].volumeM3 # 0
        /\ ( \/ args.depthToGroundwaterM = null
             \/ args.depthToGroundwaterM <= 12
             \/ args.openSpaceM2 < 2
             \/ argTarget <= 20 * VolUnit ) => ~hasType(ret, "shaft")
        /\ (args.openSpaceM2 < 10 \/ remainingForTrench <= 40 * VolUnit)
              => ~hasType(ret, "trench")
        /\ (args.openSpaceM2 < 4 \/ remainingForPit <= 5 * VolUnit) => ~hasType(ret, "pit")

\* C13 witness: the three rules fired and the list is shaft, trench, pit.
C13_Witness ==
    /\ fn = "recommendStructure"
    /\ Len(ret) = 3
    /\ ret[1].type = "shaft" /\ ret[2].type = "trench" /\ ret[3].type = "pit"
    /\ \A i \in 1..3 : ret[i].volumeM3 > 0

\* the two invocations agree on the five inputs the engine reads and on both draws
sameEngineInputs(a, la, b, lb) ==
    /\ a.lat = b.lat /\ a.roofAreaM2 = b.roofAreaM2 /\ a.roofType = b.roofType
    /\ a.openSpaceM2 = b.openSpaceM2 /\ a.dwellers = b.dwellers
    /\ la.annualRainMm = lb.annualRainMm
    /\ la.depthToGroundwaterM = lb.depthToGroundwaterM

\* C14: two invocations of postAssess that agree on lat, roofAreaM2, roofType,
\* openSpaceM2, dwellers and on both random draws resolve with identical results,
\* whatever their lon and consentToStore and whatever the order in which they were made
\* and their timers fired; and no step of one invocation changes anything of the other.
C14_FunctionOfFiveInputs ==
    /\ [](  (resolved /\ other.pc = "resolved"
               /\ sameEngineInputs(input, locals, other.input, other.locals))
            => result = other.result )
    /\ [][ (other' # other) => UNCHANGED <<pc, input, locals, result>> ]_vars
    /\ [][ (<<pc, input, locals, result>>' # <<pc, input, locals, result>>)
              => other' = other ]_vars

\* C14 witness: two resolved invocations with equal engine inputs and draws, different
\* lon and different consentToStore.
C14_Witness ==
    /\ resolved
    /\ other.pc = "resolved"
    /\ sameEngineInputs(input, locals, other.input, other.locals)
    /\ input.lon # other.input.lon
    /\ input.consentToStore # other.input.consentToStore
    /\ result = other.result
    /\ result.recommendedStructures # << >>

theShaft == ret[CHOOSE i \in 1..Len(ret) : ret[i].type = "shaft"]

\* C15: with open space >= 2 and target volume > 2, recommendStructure returns a shaft
\* exactly when the groundwater depth is non-null and > 12 m and the target volume is
\* > 20 m3; the shaft has depth clamp(0.7 * groundwater depth, 8, 25) m, recharge
\* capacity (pi/4 * depth) * 0.4 * 5, cost 8000 + 1000 * depth and count 1.  With a null
\* or <= 12 m groundwater depth no shaft is returned.
C15_ShaftRule ==
    fn = "recommendStructure" =>
        LET gw == args.depthToGroundwaterM
            deep == gw # null /\ gw > 12
            depthM == IF 7 * gw < 80 THEN 80 ELSE IF 7 * gw > 250 THEN 250 ELSE 7 * gw
        IN  /\ (args.openSpaceM2 >= 2 /\ argTarget > 2 * VolUnit) =>
                  /\ hasType(ret, "shaft") <=> (deep /\ argTarget > 20 * VolUnit)
                  /\ hasType(ret, "shaft") =>
                        /\ theShaft.dimensions.depthM = depthM
                        /\ theShaft.volumeM3 = RoundDiv(PI * depthM * 4 * 5, 4 * 10 * 10000)
                        /\ theShaft.costInr = 8000 + 100 * depthM
                        /\ theShaft.count = 1
            /\ ~deep => ~hasType(ret, "shaft")

\* C15 witness: a shaft over a 44 m water table, its depth held at the 25 m maximum.
C15_Witness ==
    /\ fn = "recommendStructure"
    /\ args.depthToGroundwaterM = 44
    /\ hasType(ret, "shaft")
    /\ theShaft.dimensions.depthM = 250
    /\ theShaft.costInr = 33000

theTrench == ret[CHOOSE i \in 1..Len(ret) : ret[i].type = "trench"]

\* the length min(remaining / 3, openSpace / 1, 40) of the claim, in 1/(3*VolUnit) m
claimedLength ==
    LET byVolume == remainingForTrench
        bySpace == args.openSpaceM2 * 3 * VolUnit
        byMaximum == 40 * 3 * VolUnit
    IN  IF byVolume <= bySpace /\ byVolume <= byMaximum THEN byVolume
        ELSE IF bySpace <= byMaximum THEN bySpace ELSE byMaximum

\* C16: recommendStructure returns a trench exactly when the volume remaining after the
\* shaft rule is > 40 m3, open space is >= 10 m2 and the length min(remaining / 3,
\* openSpace / 1, 40) is > 2 m; the trench has that length, width 1 m, depth 1.5 m,
\* capacity length * 3 m3, cost 2000 + 500 * length and count 1.
C16_TrenchRule ==
    fn = "recommendStructure" =>
        /\ hasType(ret, "trench") <=>
              /\ remainingForTrench > 40 * VolUnit
              /\ args.openSpaceM2 >= 10
              /\ claimedLength > 2 * 3 * VolUnit
        /\ hasType(ret, "trench") =>
              /\ theTrench.dimensions.lengthM = RoundDiv(10 * claimedLength, 3 * VolUnit)
              /\ theTrench.dimensions.widthM = 10
              /\ theTrench.dimensions.depthM = 15
              /\ theTrench.volumeM3 = RoundDiv(10 * claimedLength, VolUnit)
              /\ theTrench.costInr = 2000 + RoundDiv(claimedLength, (3 * VolUnit) \div 500)
              /\ theTrench.count = 1

\* C16 witness: a trench over 50 m2 of open space whose required length exceeds 40 m, held
\* at the 40 m maximum.
C16_Witness ==
    /\ fn = "recommendStructure"
    /\ hasType(ret, "trench")
    /\ args.openSpaceM2 = 50
    /\ remainingForTrench > 120 * VolUnit
    /\ theTrench.dimensions.lengthM = 400
    /\ theTrench.volumeM3 = 1200
    /\ theTrench.costInr = 22000

thePit == ret[CHOOSE i \in 1..Len(ret) : ret[i].type = "pit"]

\* the per-pit area max(1.5^2, min(4^2, 0.6 * openSpace)) of the claim, in 1/100 m2
claimedPitArea ==
    LET share == 60 * args.openSpaceM2
        upTo16 == IF share > 1600 THEN 1600 ELSE share
    IN  IF upTo16 < 225 THEN 225 ELSE upTo16

\* area * 3 * 0.4 * 5 m3, in 1/VolUnit m3
claimedPitCapacity == claimedPitArea * 6 * (VolUnit \div 100)

\* min(ceil(remaining / capacity), 3)
claimedPitCount ==
    IF remainingForPit <= claimedPitCapacity THEN 1
    ELSE IF remainingForPit <= 2 * claimedPitCapacity THEN 2
    ELSE 3

\* C17: recommendStructure returns a pit entry exactly when the volume remaining after
\* the shaft and trench rules is > 5 m3 and open space is >= 4 m2; the per-pit area is
\* max(1.5^2, min(4^2, 0.6 * openSpace)), the depth 3 m, the count
\* min(ceil(remaining / (area * 3 * 0.4 * 5)), 3), in 1..3, the volume the per-pit
\* capacity times the count and the cost (2500 + 250 * area * 3) * count.
C17_PitRule ==
    fn = "recommendStructure" =>
        /\ hasType(ret, "pit") <=> (remainingForPit > 5 * VolUnit /\ args.openSpaceM2 >= 4)
        /\ hasType(ret, "pit") =>
              /\ thePit.dimensions.areaM2 = RoundDiv(claimedPitArea, 10)
              /\ thePit.dimensions.depthM = 30
              /\ thePit.count = claimedPitCount
              /\ thePit.count \in 1..3
              /\ thePit.volumeM3 = RoundDiv(10 * claimedPitCapacity * claimedPitCount, VolUnit)
              /\ thePit.costInr = RoundDiv((5000 + 15 * claimedPitArea) * claimedPitCount, 2)

\* C17 witness: 9 m2 of open space, pits of 5.4 m2, and more volume left than three
\* pits hold, so the count is held at 3.
C17_Witness ==
    /\ fn = "recommendStructure"
    /\ hasType(ret, "pit")
    /\ args.openSpaceM2 = 9
    /\ thePit.dimensions.areaM2 = 54
    /\ remainingForPit > 3 * claimedPitCapacity
    /\ thePit.count = 3

\* C18: the rules run in the order shaft, trench, pit over one remaining volume: the
\* trench rule's guard and length use the target volume minus the shaft's capacity, the
\* pit rule's guard and count the target volume minus the capacities of the shaft and
\* the trench; no rule computes from the full target volume once an earlier rule has
\* taken its share, and the trench's capacity never exceeds the volume left before it.
C18_RemainingVolumeThreaded ==
    fn = "recommendStructure" =>
        /\ \A i, j \in 1..Len(ret) : i < j => TypeRank(ret[i].type) < TypeRank(ret[j].type)
        /\ hasType(ret, "trench") =>
              /\ remainingForTrench > 40 * VolUnit
              /\ theTrench.volumeM3 <= VolToFixed1(remainingForTrench)
              /\ 3 * theTrench.dimensions.lengthM <= VolToFixed1(remainingForTrench) + 1
        /\ (hasType(ret, "shaft") /\ remainingForTrench <= 40 * VolUnit)
              => ~hasType(ret, "trench")
        /\ hasType(ret, "pit") =>
              /\ remainingForPit > 5 * VolUnit
              /\ (thePit.count - 1) * claimedPitCapacity < remainingForPit
        /\ ((hasType(ret, "shaft") \/ hasType(ret, "trench")) /\ remainingForPit <= 5 * VolUnit)
              => ~hasType(ret, "pit")

\* C18 witness: a target above the trench threshold of 40 m3 and ample space, but the
\* shaft took its share first and what was left called for no trench and no pit.
C18_Witness ==
    /\ fn = "recommendStructure"
    /\ args.openSpaceM2 >= 10
    /\ argTarget > 40 * VolUnit
    /\ hasType(ret, "shaft")
    /\ remainingForTrench <= 5 * VolUnit
    /\ Len(ret) = 1

\* the target recharge fraction of the claim, in 1/20: 0.7 up to 2 dwellers, 0.05 more
\* for each further dweller, 0.9 from 6 dwellers on
claimedFraction ==
    IF args.dwellers <= 2 THEN 14
    ELSE IF args.dwellers >= 6 THEN 18
    ELSE 14 + (args.dwellers - 2)

\* monsoon harvest * fraction, in 1/(20 * VolUnit) m3
claimedTarget == args.harvestVolumeM3 * claimedFraction

\* C19: recommendStructure uses the target recharge fraction
\* min(0.9, 0.7 + max(0, dwellers - 2) * 0.05) and the target volume harvest * fraction;
\* when the target volume is <= 2 m3 it returns an empty list whatever the open space
\* and the groundwater depth.
C19_TargetFraction ==
    fn = "recommendStructure" =>
        /\ targetRechargeFactor(args.dwellers) = claimedFraction
        /\ 20 * argTarget = claimedTarget
        /\ claimedTarget <= 2 * 20 * VolUnit => ret = << >>
        /\ (claimedTarget <= 5 * 20 * VolUnit /\ ~hasType(ret, "shaft")) => ret = << >>
        /\ (claimedTarget > 5 * 20 * VolUnit /\ args.openSpaceM2 >= 4) => ret # << >>

\* C19 witness: a harvest of 7 m3 for 3 dwellers, target 5.25 m3, gets a pit; for 2
\* dwellers the target would be 4.9 m3 and the list empty.
C19_Witness ==
    /\ fn = "recommendStructure"
    /\ args.harvestVolumeM3 = 7 * VolUnit
    /\ args.dwellers = 3
    /\ claimedTarget = 105 * VolUnit
    /\ hasType(ret, "pit")

\* a target volume of at most 2 m3 with ample space over a deep water table
negligibleTargetReached ==
    /\ fn = "recommendStructure"
    /\ args.harvestVolumeM3 > 0
    /\ claimedTarget <= 2 * 20 * VolUnit
    /\ args.openSpaceM2 = 50
    /\ args.depthToGroundwaterM = 44
    /\ ret = << >>

\* 2500 - clamp((lat - 8) / 29, 0, 1) * 2200, in 1/29 mm
interpolatedRain(lat) ==
    IF lat <= 8 THEN 29 * 2500
    ELSE IF lat >= 37 THEN 29 * 300
    ELSE 29 * 2500 - (lat - 8) * 2200

\* C20: for every latitude the annual rainfall postAssess computes, before rounding, is
\* within 100 mm of the interpolation 2500 - clamp((lat - 8) / 29, 0, 1) * 2200 (2500 mm
\* for lat <= 8, 300 mm for lat >= 37, non-increasing in lat), so it lies in [200, 2600];
\* and the monsoon rainfall is exactly 0.8 times the annual rainfall.
C20_RainfallWithinJitter ==
    resolved =>
        /\ Abs(29 * locals.annualRainMm - interpolatedRain(input.lat)) <= 29 * 100
        /\ baseRain(input.lat) = interpolatedRain(input.lat)
        /\ \A lat \in RainLats : lat >= input.lat => baseRain(lat) <= baseRain(input.lat)
        /\ locals.annualRainMm >= 200 /\ locals.annualRainMm <= 2600
        /\ 10 * locals.monsoonRainMm = 8 * locals.annualRainMm

\* C20 witness: a latitude north of 37 whose draw is the lowest there is, 200 mm, with
\* 160 mm of it in the monsoon.
C20_Witness ==
    /\ resolved
    /\ input.lat > 37
    /\ locals.annualRainMm = 200
    /\ locals.monsoonRainMm = 160
    /\ result.annualRainMm = 2000

\* C21: for every latitude and every draw, the groundwater depth postAssess uses lies
\* within [minDepth, maxDepth] of the zone getHydrogeologicalZone resolves for that
\* latitude, and the depthToGroundwaterM of the result is that depth rounded to one
\* decimal, never null.
C21_DepthWithinZoneRange ==
    resolved =>
        LET zone == getHydrogeologicalZone(input.lat)
        IN  /\ locals.zone = zone
            /\ locals.depthToGroundwaterM >= zone.depthToGroundwaterRangeM[1]
            /\ locals.depthToGroundwaterM <= zone.depthToGroundwaterRangeM[2]
            /\ result.depthToGroundwaterM = 10 * locals.depthToGroundwaterM
            /\ result.depthToGroundwaterM # null

\* C21 witness: a latitude of the coastal zone, whose range [2, 10] lies below the
\* deep-water-table threshold, with a depth of 5 m reported as 5.0.
C21_Witness ==
    /\ resolved
    /\ input.lat >= 8 /\ input.lat < 12
    /\ locals.zone.name = "Coastal Sedimentary Zone"
    /\ locals.depthToGroundwaterM = 5
    /\ result.depthToGroundwaterM = 50

\* C22: the harvest volumes postAssess computes are (rainfall / 1000) * roof area *
\* runoff coefficient * 0.90, once for the annual and once for the monsoon rainfall with
\* the same area, coefficient and efficiency, and the systemEfficiency of the result is
\* the 0.90 that was applied.  (Volumes in 1/VolUnit m3, coefficient and efficiency in
\* 1/100: volume * 1000 * 100 * 100 = rainfall * area * coefficient * efficiency * VolUnit,
\* both sides divided by 10^6 to stay within 32 bits.)
C22_HarvestFormula ==
    (resolved /\ input.roofType \in RoofTypes) =>
        /\ 10 * locals.annualHarvestM3
              = locals.annualRainMm * input.roofAreaM2 * result.runoffCoeff
                    * (result.systemEfficiency \div 10)
        /\ 10 * locals.monsoonHarvestM3
              = locals.monsoonRainMm * input.roofAreaM2 * result.runoffCoeff
                    * (result.systemEfficiency \div 10)
        /\ result.systemEfficiency = 90
        /\ result.annualHarvestM3 = VolToFixed1(locals.annualHarvestM3)
        /\ result.monsoonHarvestM3 = VolToFixed1(locals.monsoonHarvestM3)

\* C22 witness: 100 m2 of thatch under 2500 mm a year: 2.5 * 100 * 0.6 * 0.9 = 135 m3 a
\* year and 108 m3 in the monsoon.
C22_Witness ==
    /\ resolved
    /\ input.roofType = "thatch"
    /\ input.roofAreaM2 = 100
    /\ locals.annualRainMm = 2500
    /\ result.annualHarvestM3 = 1350
    /\ result.monsoonHarvestM3 = 1080

\* (roofAreaM2 / 200) * 30 + (annualRainMm / 1200) * 30 + 25 + (openSpaceM2 / 50) * 15,
\* times 1200, of the invocation in progress
claimedScore ==
    180 * input.roofAreaM2 + 30 * locals.annualRainMm + 1200 * 25 + 360 * input.openSpaceM2

\* C23: the feasibility of the result is Green exactly when score >= 75, Yellow exactly
\* when 40 <= score < 75 and Red otherwise, the score computed from the invocation's
\* roof area, annual rainfall and open space.
C23_TierFromScore ==
    resolved =>
        /\ result.feasibility = "Green" <=> claimedScore >= 1200 * 75
        /\ result.feasibility = "Yellow"
              <=> (claimedScore >= 1200 * 40 /\ claimedScore < 1200 * 75)
        /\ result.feasibility = "Red" <=> claimedScore < 1200 * 40

\* C23 witness: a score of exactly 75 (roof 300 m2, 200 mm of rain, no open space), Green.
C23_Witness ==
    /\ resolved
    /\ claimedScore = 1200 * 75
    /\ result.feasibility = "Green"

\* the two caps of the trench length, min(openSpace / 1, 40), in 1/(3*VolUnit) m
lengthCap == Min(args.openSpaceM2, 40) * 3 * VolUnit

\* C25: a pit is returned together with a trench only when the trench length was
\* capped, that is equals min(openSpace / 1, 40); a trench built at its required length
\* remaining / 3, below both caps, absorbs the whole remaining volume and no pit follows.
C25_PitOnlyAfterCappedTrench ==
    fn = "recommendStructure" =>
        /\ (hasType(ret, "trench") /\ hasType(ret, "pit")) =>
              /\ remainingForTrench > lengthCap
              /\ 10 * theTrench.volumeM3 * (VolUnit \div 100) = lengthCap
        /\ (hasType(ret, "trench") /\ remainingForTrench <= lengthCap) =>
              /\ theTrench.volumeM3 = VolToFixed1(remainingForTrench)
              /\ ~hasType(ret, "pit")

\* C25 witness: a trench alone, at its required length below both caps, over enough
\* space for pits.
C25_Witness ==
    /\ fn = "recommendStructure"
    /\ hasType(ret, "trench")
    /\ remainingForTrench < lengthCap
    /\ args.openSpaceM2 = 50
    /\ ~hasType(ret, "pit")

\* the ground the recommended structures take, in 1/(3*VolUnit) m2: the shaft's top
\* area pi/4, the trench's length times its width, the pit area times the pit count
footprint ==
    (IF hasType(ret, "shaft") THEN (PI * 3 * (VolUnit \div 10000)) \div 4 ELSE 0)
    + (IF hasType(ret, "trench")
       THEN finalLength(remainingForTrench, args.openSpaceM2) * standardTrench.width ELSE 0)
    + (IF hasType(ret, "pit")
       THEN pitArea(args.openSpaceM2) * thePit.count * ((3 * VolUnit) \div 100) ELSE 0)

\* C26: for every result of recommendStructure the combined ground footprint of the
\* recommended structures never exceeds the open space supplied.
C26_FootprintWithinOpenSpace ==
    fn = "recommendStructure" => footprint <= args.openSpaceM2 * 3 * VolUnit

\* a harvest of 100 m3 on 10 m2 of open space: a 10 m trench and two pits of 6 m2
footprintExceedsSpace ==
    /\ fn = "recommendStructure"
    /\ args.harvestVolumeM3 = 100 * VolUnit
    /\ args.openSpaceM2 = 10
    /\ hasType(ret, "trench")
    /\ hasType(ret, "pit")
    /\ footprint > 2 * args.openSpaceM2 * 3 * VolUnit

\* C27: whenever the trench guard passes (remaining volume > 40 and open space >= 10) a
\* trench is returned, its unrounded length lies in [10, 40] m and does not exceed
\* openSpace / width: the 'length <= 2 m, skip' branch is never taken.
C27_TrenchGuardImpliesTrench ==
    (fn = "recommendStructure" /\ remainingForTrench > 40 * VolUnit /\ args.openSpaceM2 >= 10) =>
        LET length == finalLength(remainingForTrench, args.openSpaceM2)
        IN  /\ hasType(ret, "trench")
            /\ length > 2 * 3 * VolUnit
            /\ length >= 10 * 3 * VolUnit
            /\ length <= 40 * 3 * VolUnit
            /\ length * standardTrench.width <= args.openSpaceM2 * 3 * VolUnit

\* C27 witness: the shortest trench there is: 10 m2 of open space, held at 10 m.
C27_Witness ==
    /\ fn = "recommendStructure"
    /\ args.openSpaceM2 = 10
    /\ remainingForTrench > 40 * VolUnit
    /\ hasType(ret, "trench")
    /\ theTrench.dimensions.lengthM = 100

\* C28: getHydrogeologicalZone returns the 'Western Arid Zone (Rajasthan/Gujarat)' entry
\* for no latitude: every latitude of its range [24, 30) is taken by an earlier entry
\* (Central Highlands for [24, 25), Northern Alluvial Plains for [25, 30)); and the
\* Coastal Sedimentary Zone is returned only for latitudes in [8, 12).
C28_ShadowedZones ==
    fn = "getHydrogeologicalZone" =>
        /\ ret.name # "Western Arid Zone (Rajasthan/Gujarat)"
        /\ (args.lat >= 24 /\ args.lat < 25) => ret.name = "Central Highlands (Bundelkhand, etc.)"
        /\ (args.lat >= 25 /\ args.lat < 30)
              => ret.name = "Northern Alluvial Plains (Indo-Gangetic)"
        /\ ret.name = "Coastal Sedimentary Zone" => (args.lat >= 8 /\ args.lat < 12)

\* C28 witness: a latitude the Western Arid Zone contains, resolved to the Northern plains.
C28_Witness ==
    /\ fn = "getHydrogeologicalZone"
    /\ args.lat = 27
    /\ zoneContains(ZONES[5], args.lat)
    /\ ret = ZONES[1]

\* the coastal zone is returned for each latitude of [8, 12)
coastalReached ==
    /\ fn = "getHydrogeologicalZone"
    /\ args.lat = 11
    /\ ret.name = "Coastal Sedimentary Zone"

\* C29: for every input with latitude <= 13, roof area >= 0 and open space >= 0, and
\* every rainfall draw, the feasibility is Green (rainfall term plus the baseline of 25
\* reach 75); and for every latitude <= 31 the tier Red is never returned.
C29_TierByLatitude ==
    (resolved /\ input.roofAreaM2 >= 0 /\ input.openSpaceM2 >= 0) =>
        /\ input.lat <= 13 =>
              /\ result.feasibility = "Green"
              /\ 30 * locals.annualRainMm + 1200 * 25 >= 1200 * 75
        /\ input.lat <= 31 => result.feasibility # "Red"

\* C29 witness: latitude 13 with no roof area and no open space, the lowest draw of the
\* grid, Green on rainfall and baseline alone.
C29_Witness ==
    /\ resolved
    /\ input.lat = 13
    /\ input.roofAreaM2 = 0
    /\ input.openSpaceM2 = 0
    /\ locals.annualRainMm = 2050
    /\ result.feasibility = "Green"

\* latitude 31 with no roof area and no open space is Yellow, latitude 32 can be Red
yellowAt31RedAt32 ==
    /\ resolved
    /\ input.roofAreaM2 = 0
    /\ input.openSpaceM2 = 0
    /\ \/ input.lat = 31 /\ result.feasibility = "Yellow" /\ locals.annualRainMm = 700
       \/ input.lat = 32 /\ result.feasibility = "Red"

\* the wizard has called postAssess and waits for it
submitted == appState = "ASSESSING" /\ isLoading /\ pc = "pending"

\* C24: in the AssessmentWizard, after any sequence of field edits, map changes, Next
\* and Back, postAssess is invoked only from step 2 and only when every required field
\* is filled in: location set, roof area > 0, roof type chosen, open space entered
\* (non-empty) and >= 0, household size > 0.
C24_SubmitOnlyWhenFilled ==
    submitted =>
        /\ step = 2
        /\ truthyNumber(formData.lat) /\ truthyNumber(formData.lon)
        /\ formData.roofAreaM2 # "" /\ Number(formData.roofAreaM2) > 0
        /\ formData.roofType \in RoofTypes
        /\ formData.openSpaceM2 # "" /\ Number(formData.openSpaceM2) >= 0
        /\ formData.dwellers # "" /\ Number(formData.dwellers) > 0

\* postAssess was called with the open-space field left empty: the engine got 0
emptyOpenSpaceSubmitted ==
    /\ submitted
    /\ formData.openSpaceM2 = ""
    /\ input.openSpaceM2 = 0

\* every other part of C24 holds: step 2, location, roof area, roof type, household
\* size, and an open space that is not negative
submittedOtherFieldsFilled ==
    submitted =>
        /\ step = 2
        /\ truthyNumber(formData.lat) /\ truthyNumber(formData.lon)
        /\ formData.roofAreaM2 # "" /\ Number(formData.roofAreaM2) > 0
        /\ formData.roofType \in RoofTypes
        /\ Number(formData.openSpaceM2) >= 0
        /\ formData.dwellers # "" /\ Number(formData.dwellers) > 0
        /\ input = submittedInput

\* the transitions of the App screen state machine
AppTransitions ==
    {<<"LANDING", "ASSESSING">>, <<"ASSESSING", "SHOWING_RESULTS">>,
     <<"SHOWING_RESULTS", "ASSESSING">>}

\* C30: in the App screen state machine, over every sequence of start,
\* assessment-complete and reset events, SHOWING_RESULTS is entered only with a
\* non-null results record, results is null in every LANDING and ASSESSING state,
\* LANDING is never entered again once left, and the only transitions are
\* LANDING -> ASSESSING, ASSESSING -> SHOWING_RESULTS, SHOWING_RESULTS -> ASSESSING.
C30_ScreenStateMachine ==
    /\ [](appState = "SHOWING_RESULTS" => results # nullResults /\ results.feasibility \in {"Green", "Yellow", "Red"})
    /\ [](appState \in {"LANDING", "ASSESSING"} => results = nullResults)
    /\ [][appState' # appState => <<appState, appState'>> \in AppTransitions]_vars
    /\ [][appState # "LANDING" => appState' # "LANDING"]_vars

\* C30 witness: the results screen, showing the record the engine resolved with for
\* the form that was submitted.
C30_Witness ==
    /\ appState = "SHOWING_RESULTS"
    /\ results # nullResults
    /\ results.feasibility = "Green"
    /\ results.runoffCoeff = ROOF_COEFFICIENTS["thatch"]
    /\ pc = "idle"

====
